---- MODULE Spec2Model ----
(***************************************************************************)
(* Model of the schedule resolution engine of app.py: the per-cycle daily  *)
(* calendar (create_cycle_calendar) and the absolute treatment timeline    *)
(* (create_treatment_timeline) derived from a list of course records.      *)
(*                                                                         *)
(* Dates are whole days counted from the anchor (datetime.now() at the     *)
(* moment create_treatment_timeline starts), so a timedelta(days=n) is the *)
(* integer n.  Python dicts are functions whose DOMAIN is the set of keys  *)
(* present; `"k" in d` is `"k" \in DOMAIN d`.                              *)
(***************************************************************************)
EXTENDS Integers, Sequences, FiniteSets, TLC

VARIABLES courses, selected, calendar, timeline_data, timeline_fig

vars == <<courses, selected, calendar, timeline_data, timeline_fig>>

----------------------------------------------------------------------------
(* Bounds of the explored inputs.                                          *)

\* largest cycle_length of the enumerated courses
MaxLen == 2

\* largest cycles count of the enumerated courses
MaxCycles == 2

\* names of the courses of a regimen, by position ("course1", "course2", ...)
CourseNames == <<"Induction", "Consolidation", "Maintenance">>

\* names of the drugs of a course, by position
DrugNames == <<"DrugA", "DrugB">>

----------------------------------------------------------------------------
(* Helpers on sequences and dicts.                                         *)

Range(s) == {s[i] : i \in DOMAIN s}

\* a dict without the keys F
Without(d, F) == [k \in (DOMAIN d) \ F |-> d[k]]

\* all duplicate-free lists over S (a JSON list holding a set of days)
InjSeqs(S) ==
  UNION {{s \in [1..n -> S] : \A a, b \in 1..n : a # b => s[a] # s[b]} :
         n \in 0..Cardinality(S)}

\* duplicate-free lists over S of at most two elements
ShortInjSeqs(S) ==
  {<<>>} \cup {<<a>> : a \in S} \cup {s \in {<<a, b>> : a \in S, b \in S} : s[1] # s[2]}

----------------------------------------------------------------------------
(* create_cycle_calendar                                                   *)

CycleDaysZeroBased(cycle_length) == 0..(cycle_length - 1)

\* range(1, cycle_length + 1)
CycleDays(cycle_length) == 1..cycle_length

\* first key of `keys` (in reading order) that the dict lacks, or "none"
RECURSIVE FirstMissing(_, _)
FirstMissing(drug, keys) ==
  IF keys = <<>> THEN "none"
  ELSE IF Head(keys) \notin DOMAIN drug THEN Head(keys)
  ELSE FirstMissing(drug, Tail(keys))

MultiDoseFirstDay(drug, day) ==
  IF day # drug.days[1] THEN "maintenance_dose" ELSE "loading_dose"

\* the key line 42 reads for the dose of a multi-day drug
MultiDoseKey(drug, day) ==
  IF day > 1 THEN "maintenance_dose" ELSE "loading_dose"

\* what one drug contributes to one day: nothing, an entry, or a KeyError
DrugOnDay(drug, day) ==
  IF "day" \in DOMAIN drug /\ drug.day = day
  THEN LET miss == FirstMissing(drug, <<"name", "dose", "route">>)
       IN  IF miss # "none" THEN [kind |-> "KeyError", key |-> miss, entry |-> <<>>]
           ELSE [kind |-> "entry", key |-> "none",
                 entry |-> [name |-> drug.name, dose |-> drug.dose,
                            route |-> drug.route]]
  ELSE IF "days" \in DOMAIN drug /\ day \in Range(drug.days)
  THEN LET dosekey == MultiDoseKey(drug, day)
           miss == FirstMissing(drug, <<dosekey, "name", "route">>)
       IN  IF miss # "none" THEN [kind |-> "KeyError", key |-> miss, entry |-> <<>>]
           ELSE [kind |-> "entry", key |-> "none",
                 entry |-> [name |-> drug.name, dose |-> drug[dosekey],
                            route |-> drug.route]]
  ELSE [kind |-> "skip", key |-> "none", entry |-> <<>>]

\* the inner loop, lines 32-47, from drug k on: day_drugs, or the KeyError
RECURSIVE DayDrugs(_, _, _, _)
DayDrugs(drugs, day, k, day_drugs) ==
  IF k > Len(drugs) THEN [status |-> "ok", key |-> "none", day_drugs |-> day_drugs]
  ELSE LET r == DrugOnDay(drugs[k], day)
       IN  IF r.kind = "KeyError"
           THEN [status |-> "KeyError", key |-> r.key, day_drugs |-> <<>>]
           ELSE DayDrugs(drugs, day, k + 1,
                         IF r.kind = "entry" THEN Append(day_drugs, r.entry)
                         ELSE day_drugs)

\* line 52
HasTreatment(day_drugs) == Len(day_drugs) > 0

\* the outer loop, lines 30-53, from `day` on
RECURSIVE CalendarLoop(_, _, _)
CalendarLoop(course, day, calendar_data) ==
  IF day \notin CycleDays(course.cycle_length)
  THEN [status |-> "Returned", key |-> "none", data |-> calendar_data]
  ELSE LET r == DayDrugs(course.drugs, day, 1, <<>>)
       IN  IF r.status = "KeyError"
           THEN [status |-> "KeyError", key |-> r.key, data |-> <<>>]
           ELSE CalendarLoop(course, day + 1,
                             Append(calendar_data,
                                    [day |-> day, drugs |-> r.day_drugs,
                                     has_treatment |-> HasTreatment(r.day_drugs)]))

\* a calendar whose loading dose is given in the first cycle only
create_cycle_calendar_cycle_one(course, cycle_num) ==
  CalendarLoop(
    [course EXCEPT !.drugs =
       [k \in DOMAIN course.drugs |->
          IF cycle_num > 1 /\ "maintenance_dose" \in DOMAIN course.drugs[k]
                           /\ "loading_dose" \in DOMAIN course.drugs[k]
          THEN [course.drugs[k] EXCEPT !.loading_dose = course.drugs[k].maintenance_dose]
          ELSE course.drugs[k]]],
    1, <<>>)

create_cycle_calendar(course, cycle_num) == CalendarLoop(course, 1, <<>>)

----------------------------------------------------------------------------
(* create_treatment_timeline                                               *)

\* f"Cycle {cycle}"
CycleLabel(cycle) == <<"Cycle", cycle>>

\* the dict appended at lines 111-117 and 123-129
Event(course_name, cycle, drug, drug_start) ==
  [Course |-> course_name, Cycle |-> CycleLabel(cycle), Drug |-> drug.name,
   Start |-> drug_start, Finish |-> drug_start + 1]

\* lines 109 and 121
DrugStart(cycle_start, day) == cycle_start + (day - 1)

\* lines 106-129 for one drug
DrugEvents(course_name, cycle, cycle_start, drug) ==
  IF "day" \in DOMAIN drug
  THEN << Event(course_name, cycle, drug, DrugStart(cycle_start, drug.day)) >>
  ELSE IF "days" \in DOMAIN drug
  THEN [n \in 1..Len(drug.days) |->
          Event(course_name, cycle, drug, DrugStart(cycle_start, drug.days[n]))]
  ELSE <<>>

\* the drug loop, line 106, from drug k on
RECURSIVE CycleEvents(_, _, _, _)
CycleEvents(course, cycle, cycle_start, k) ==
  IF k > Len(course.drugs) THEN <<>>
  ELSE DrugEvents(course.name, cycle, cycle_start, course.drugs[k])
         \o CycleEvents(course, cycle, cycle_start, k + 1)

CycleStartOneBased(current_date, cycle, cycle_length) ==
  current_date + cycle * cycle_length

CycleStartSame(current_date, cycle, cycle_length) ==
  current_date + cycle_length

\* line 104
CycleStart(current_date, cycle, cycle_length) ==
  current_date + (cycle - 1) * cycle_length

\* the cycle loop, line 103, from `cycle` on
RECURSIVE CourseEvents(_, _, _)
CourseEvents(course, current_date, cycle) ==
  IF cycle > course.cycles THEN <<>>
  ELSE CycleEvents(course, cycle,
                   CycleStart(current_date, cycle, course.cycle_length), 1)
         \o CourseEvents(course, current_date, cycle + 1)

AdvanceDateCyclesOnly(current_date, previous_course) ==
  current_date + previous_course.cycles

AdvanceDateSkipEmpty(current_date, previous_course) ==
  IF previous_course.drugs = <<>> THEN current_date
  ELSE current_date + previous_course.cycles * previous_course.cycle_length

\* lines 99-101
AdvanceDate(current_date, previous_course) ==
  current_date + previous_course.cycles * previous_course.cycle_length

\* the course loop, line 94, from course_idx on (1-based here, 0-based there)
RECURSIVE TimelineLoop(_, _, _)
TimelineLoop(cs, course_idx, current_date) ==
  IF course_idx > Len(cs) THEN <<>>
  ELSE LET date == IF course_idx > 1 THEN AdvanceDate(current_date, cs[course_idx - 1])
                   ELSE current_date
       IN  CourseEvents(cs[course_idx], date, 1)
             \o TimelineLoop(cs, course_idx + 1, date)

\* lines 91-132: the events, and whether a figure or None is returned
create_treatment_timeline(cs) ==
  LET data == TimelineLoop(cs, 1, 0)
  IN  [data |-> data, fig |-> IF data = <<>> THEN "None" ELSE "Figure"]

----------------------------------------------------------------------------
(* The regimens explored: what get_treatment_courses hands to the two      *)
(* functions.  Nothing is validated on load, so malformed records reach    *)
(* them as they are.                                                       *)

SingleDay(name, day) ==
  [name |-> name, dose |-> <<"dose", name>>, route |-> "IV", day |-> day]

MultiDay(name, days) ==
  [name |-> name, loading_dose |-> <<"loading", name>>,
   maintenance_dose |-> <<"maintenance", name>>, route |-> "IV", days |-> days]

\* a record declaring both shapes, and one declaring neither
BothShapes(name, day, days) == SingleDay(name, day) @@ MultiDay(name, days)
NoShape(name) == [name |-> name, route |-> "IV"]

\* the well-formed drugs of a course of the given cycle_length
WellFormedDrugs(name, cycle_length) ==
  {SingleDay(name, d) : d \in 1..cycle_length}
    \cup {MultiDay(name, ds) : ds \in InjSeqs(1..cycle_length)}

\* drugs whose days may leave [1, cycle_length] or whose shape is ambiguous
DayValues == 0..(MaxLen + 1)

MalformedDrugs(name) ==
  {SingleDay(name, d) : d \in DayValues}
    \cup {MultiDay(name, ds) : ds \in ShortInjSeqs(DayValues)}
    \cup {BothShapes(name, d, ds) : d \in DayValues, ds \in ShortInjSeqs(DayValues)}
    \cup {NoShape(name)}

\* no drug, a drug without days, one drug on any one day, or two drugs on the
\* last and the first day of the cycle
SimpleDrugLists(cycle_length) ==
  {<<>>, <<MultiDay(DrugNames[1], <<>>)>>,
   <<SingleDay(DrugNames[1], cycle_length), MultiDay(DrugNames[2], <<1>>)>>}
    \cup {<<SingleDay(DrugNames[1], d)>> : d \in 1..cycle_length}

\* drug lists of length 0..Len(DrugNames), drug k named DrugNames[k]
WellFormedDrugLists(cycle_length) ==
  UNION {{ds \in [1..n -> UNION {WellFormedDrugs(DrugNames[k], cycle_length) : k \in 1..n}] :
            \A k \in 1..n : ds[k].name = DrugNames[k]} : n \in 0..Len(DrugNames)}

Course(name, cycle_length, cycles, drugs) ==
  [name |-> name, cycle_length |-> cycle_length, cycles |-> cycles, drugs |-> drugs]

\* the course record of a regimen at position i
CoursesOfLength(i, cycle_length, drug_lists) ==
  {Course(CourseNames[i], cycle_length, cy, ds) :
     cy \in 1..MaxCycles, ds \in drug_lists}

\* one well-formed course with up to Len(DrugNames) drugs
WellFormedRegimens ==
  UNION {{<<c>> : c \in CoursesOfLength(1, cl, WellFormedDrugLists(cl))} :
         cl \in 1..MaxLen}

\* a well-formed course of which one drug lacks one of its dose or route fields
DroppableFields == {"dose", "loading_dose", "maintenance_dose", "route"}

MissingFieldRegimens ==
  UNION {{<<[r[1] EXCEPT !.drugs[k] = Without(r[1].drugs[k], {f})]>> :
            f \in DroppableFields \cap DOMAIN r[1].drugs[k]} :
         <<r, k>> \in {rk \in WellFormedRegimens \X (1..Len(DrugNames)) :
                         rk[2] <= Len(rk[1][1].drugs)}}

\* one course with at most one drug, where cycle_length and cycles may be 0 and
\* the drug may lie outside the cycle or declare both shapes or none
MalformedRegimens ==
  {<<Course(CourseNames[1], cl, cy, ds)>> :
     cl \in 0..MaxLen, cy \in 0..MaxCycles,
     ds \in {<<>>} \cup {<<d>> : d \in MalformedDrugs(DrugNames[1])}}

\* up to Len(CourseNames) well-formed courses in sequence
SequenceCourses(i) ==
  UNION {CoursesOfLength(i, cl, SimpleDrugLists(cl)) : cl \in 1..MaxLen}

SequenceRegimens ==
  UNION {{cs \in [1..n -> UNION {SequenceCourses(i) : i \in 1..n}] :
            \A i \in 1..n : cs[i].name = CourseNames[i]} : n \in 0..Len(CourseNames)}

\* the worked examples: one drug on day 1 of a 21-day cycle, four cycles; and
\* two multi-day drugs, on days 1 and 3 and on days 3 and 5
ExampleAC ==
  <<Course("AC", 21, 4, <<SingleDay("Doxorubicin", 1)>>)>>

ExampleLoading ==
  <<Course(CourseNames[1], 5, 1,
           <<MultiDay(DrugNames[1], <<1, 3>>), MultiDay(DrugNames[2], <<3, 5>>)>>)>>

Examples == {ExampleAC, ExampleLoading}

----------------------------------------------------------------------------
(* The state machine: main() reruns on every interaction; each run shows   *)
(* the calendar of the selected course and cycle (tab 1) and builds the    *)
(* timeline of all courses (tab 3).                                        *)

NotRun == [status |-> "NotRun", key |-> "none", data |-> <<>>]

InitOutputs ==
  /\ selected = [course_idx |-> 0, cycle_num |-> 0]
  /\ calendar = NotRun
  /\ timeline_data = <<>>
  /\ timeline_fig = "NotRun"

Init ==
  /\ courses \in WellFormedRegimens \cup MissingFieldRegimens
                   \cup MalformedRegimens \cup Examples
  /\ InitOutputs

InitTimeline ==
  /\ courses \in WellFormedRegimens \cup MalformedRegimens
                   \cup SequenceRegimens \cup Examples
  /\ InitOutputs

\* the cycle selectbox, lines 189-193: range(1, cycles + 1); with no option to
\* choose from it yields None, written 0 here
CycleOptions(course) ==
  IF course.cycles >= 1 THEN 1..course.cycles ELSE {0}

\* lines 180-204 and 57-59: the selected course and cycle are resolved
DisplayCycleCalendar ==
  /\ \E course_idx \in 1..Len(courses) :
       \E cycle_num \in CycleOptions(courses[course_idx]) :
         /\ selected' = [course_idx |-> course_idx, cycle_num |-> cycle_num]
         /\ calendar' = create_cycle_calendar(courses[course_idx], cycle_num)
  /\ UNCHANGED <<courses, timeline_data, timeline_fig>>

\* line 245
CreateTreatmentTimeline ==
  /\ timeline_fig = "NotRun"
  /\ LET r == create_treatment_timeline(courses)
     IN  /\ timeline_data' = r.data
         /\ timeline_fig' = r.fig
  /\ UNCHANGED <<courses, selected, calendar>>

Next == DisplayCycleCalendar \/ CreateTreatmentTimeline

Spec == Init /\ [][Next]_vars

NextTimeline == CreateTreatmentTimeline

SpecTimeline == InitTimeline /\ [][NextTimeline]_vars

----------------------------------------------------------------------------
(* Vocabulary of the properties.                                           *)

TimelineDone == timeline_fig # "NotRun"
CalendarDone == calendar.status # "NotRun"
SelectedCourse == courses[selected.course_idx]

HasDay(drug) == "day" \in DOMAIN drug
HasDays(drug) == "days" \in DOMAIN drug
SingleShape(drug) == HasDay(drug) /\ ~HasDays(drug)
MultiShape(drug) == HasDays(drug) /\ ~HasDay(drug)
WellShaped(course) ==
  \A k \in DOMAIN course.drugs : SingleShape(course.drugs[k]) \/ MultiShape(course.drugs[k])
AllWellShaped == \A i \in DOMAIN courses : WellShaped(courses[i])

\* the administration days a drug record declares
AdminDays(drug) ==
  IF SingleShape(drug) THEN {drug.day}
  ELSE IF MultiShape(drug) THEN Range(drug.days) ELSE {}

\* every day value a drug record holds, under either key
DayValuesOf(drug) ==
  (IF HasDay(drug) THEN {drug.day} ELSE {}) \cup (IF HasDays(drug) THEN Range(drug.days) ELSE {})

InRange(course) ==
  \A k \in DOMAIN course.drugs : DayValuesOf(course.drugs[k]) \subseteq 1..course.cycle_length
AllInRange == \A i \in DOMAIN courses : InRange(courses[i])

\* the fields the data model requires of a drug record of its shape
RequiredFields(drug) ==
  {"name", "route"} \cup (IF HasDay(drug) THEN {"dose"} ELSE {})
    \cup (IF HasDays(drug) THEN {"loading_dose", "maintenance_dose"} ELSE {})
Complete(drug) == RequiredFields(drug) \subseteq DOMAIN drug

Span(course) == course.cycles * course.cycle_length

\* the day on which course i begins: the spans of all courses before it
RECURSIVE SpanBefore(_, _)
SpanBefore(cs, i) == IF i <= 1 THEN 0 ELSE SpanBefore(cs, i - 1) + Span(cs[i - 1])

CourseIndex(name) == CHOOSE i \in DOMAIN courses : courses[i].name = name
EventsOfCourse(i) == {n \in DOMAIN timeline_data : timeline_data[n].Course = courses[i].name}
StartDates == [n \in DOMAIN timeline_data |-> timeline_data[n].Start]

\* the event that cycle c of course i owes to day d of its drug k
ExpectedEvent(i, c, k, d) ==
  LET start == SpanBefore(courses, i) + (c - 1) * courses[i].cycle_length + (d - 1)
  IN  [Course |-> courses[i].name, Cycle |-> <<"Cycle", c>>,
       Drug |-> courses[i].drugs[k].name, Start |-> start, Finish |-> start + 1]

Administrations ==
  UNION {UNION {UNION {{<<i, c, k, d>> : d \in AdminDays(courses[i].drugs[k])} :
                       k \in DOMAIN courses[i].drugs} :
                c \in 1..courses[i].cycles} :
         i \in DOMAIN courses}

----------------------------------------------------------------------------
(* Properties of create_treatment_timeline.                                *)

\* C1: when all day values lie in [1, cycle_length], course i occupies the days
\* from the sum of the spans before it up to its own span: each of its events
\* starts in that range, a course with a drug on day 1 has an event on its first
\* day, events of an earlier course end before those of a later one start, and
\* no event of course i+1 starts before the end of course i.
C1_CoursesContiguous ==
  (TimelineDone /\ AllInRange) =>
    /\ \A n \in DOMAIN timeline_data :
         LET i == CourseIndex(timeline_data[n].Course)
         IN  /\ SpanBefore(courses, i) <= timeline_data[n].Start
             /\ timeline_data[n].Start < SpanBefore(courses, i) + Span(courses[i])
    /\ \A i \in DOMAIN courses :
         (courses[i].cycles >= 1 /\ \E k \in DOMAIN courses[i].drugs :
                                      1 \in AdminDays(courses[i].drugs[k]))
           => \E n \in EventsOfCourse(i) : timeline_data[n].Start = SpanBefore(courses, i)
    /\ \A n, m \in DOMAIN timeline_data :
         CourseIndex(timeline_data[n].Course) < CourseIndex(timeline_data[m].Course)
           => timeline_data[n].Finish <= timeline_data[m].Start
    /\ \A i \in DOMAIN courses : \A m \in DOMAIN timeline_data :
         (i + 1 \in DOMAIN courses /\ m \in EventsOfCourse(i + 1))
           => timeline_data[m].Start >= SpanBefore(courses, i) + Span(courses[i])

\* three courses in a row, each with events, all days in range
C1_Witness ==
  /\ TimelineDone /\ AllInRange /\ Len(courses) = 3
  /\ \A i \in DOMAIN courses : EventsOfCourse(i) # {}
  /\ \E i \in DOMAIN courses : Span(courses[i]) > 1

\* C2: for every course, cycle, drug and administration day of a record of one
\* shape there is exactly one event, starting on course start + (c-1) *
\* cycle_length + (d-1) and finishing a day later, labelled with the cycle and
\* the names; there are no other events.  The 21-day, 4-cycle course with one
\* drug on day 1 yields the starts 0, 21, 42, 63.
C2_OneEventPerAdministration ==
  (TimelineDone /\ AllWellShaped) =>
    /\ \A t \in Administrations :
         Cardinality({n \in DOMAIN timeline_data :
                        timeline_data[n] = ExpectedEvent(t[1], t[2], t[3], t[4])}) = 1
    /\ \A n \in DOMAIN timeline_data :
         \E t \in Administrations : timeline_data[n] = ExpectedEvent(t[1], t[2], t[3], t[4])
    /\ Len(timeline_data) = Cardinality(Administrations)
    /\ (courses = ExampleAC => StartDates = <<0, 21, 42, 63>>)

C2_Witness ==
  /\ TimelineDone /\ courses = ExampleAC
  /\ Len(timeline_data) = 4 /\ timeline_fig = "Figure"

\* C5 as stated: the emitted events have non-decreasing start dates.
C5_Chronological ==
  TimelineDone =>
    \A n, m \in DOMAIN timeline_data :
      n < m => timeline_data[n].Start <= timeline_data[m].Start

\* C5 as amended: with all day values in range, start dates are non-decreasing
\* from one cycle to the next and from one course to the next; within a cycle
\* the events follow the declared order of the drugs and of each days list.
C5_CyclesChronological ==
  (TimelineDone /\ AllInRange) =>
    \A n, m \in DOMAIN timeline_data :
      (n < m /\ (timeline_data[n].Course # timeline_data[m].Course
                 \/ timeline_data[n].Cycle # timeline_data[m].Cycle))
        => timeline_data[n].Start <= timeline_data[m].Start

\* two cycles, and within a cycle a later event that starts earlier
C5_Witness ==
  /\ TimelineDone /\ AllInRange
  /\ \E n, m \in DOMAIN timeline_data :
       n < m /\ timeline_data[n].Cycle = timeline_data[m].Cycle
             /\ timeline_data[n].Start > timeline_data[m].Start
  /\ \E n, m \in DOMAIN timeline_data : timeline_data[n].Cycle # timeline_data[m].Cycle

ZeroDrugs(course) == course.drugs = <<>>

\* C9: a course without drugs and a multi-day drug without days have no events,
\* and every event of a course after a course without drugs still starts on the
\* day that counts the full span of every earlier course, the empty ones too.
C9_EmptyCourseKeepsSpan ==
  (TimelineDone /\ AllWellShaped) =>
    /\ \A i \in DOMAIN courses : ZeroDrugs(courses[i]) => EventsOfCourse(i) = {}
    /\ \A i \in DOMAIN courses : \A k \in DOMAIN courses[i].drugs :
         (MultiShape(courses[i].drugs[k]) /\ courses[i].drugs[k].days = <<>>)
           => ~ \E n \in EventsOfCourse(i) : timeline_data[n].Drug = courses[i].drugs[k].name
    /\ \A i, j \in DOMAIN courses :
         (i < j /\ ZeroDrugs(courses[i])) =>
           \A n \in EventsOfCourse(j) :
             \E k \in DOMAIN courses[j].drugs : \E d \in AdminDays(courses[j].drugs[k]) :
                  /\ timeline_data[n].Drug = courses[j].drugs[k].name
                  /\ timeline_data[n].Start =
                       SpanBefore(courses, i) + Span(courses[i])
                         + (SpanBefore(courses, j) - SpanBefore(courses, i + 1))
                         + (timeline_data[n].Cycle[2] - 1) * courses[j].cycle_length + (d - 1)

\* two courses without drugs in a row, then a course with events
C9_Witness ==
  /\ TimelineDone /\ Len(courses) = 3
  /\ ZeroDrugs(courses[1]) /\ ZeroDrugs(courses[2])
  /\ EventsOfCourse(3) # {}
  /\ \A n \in EventsOfCourse(3) : timeline_data[n].Start >= Span(courses[1]) + Span(courses[2])

----------------------------------------------------------------------------
(* Properties of create_cycle_calendar.                                    *)

\* the day-membership rule of the calendar, whatever the record's shape
IncludedOn(drug, d) ==
  (HasDay(drug) /\ drug.day = d) \/ (HasDays(drug) /\ d \in Range(drug.days))

ExpectedDose(drug, d) ==
  IF SingleShape(drug) THEN drug.dose
  ELSE IF d = 1 THEN drug.loading_dose ELSE drug.maintenance_dose

\* the drugs scheduled on day d, in declared order, with their doses
ExpectedEntries(course, d) ==
  LET ks == SelectSeq([k \in 1..Len(course.drugs) |-> k],
                      LAMBDA k : d \in AdminDays(course.drugs[k]))
  IN  [j \in 1..Len(ks) |->
         [name |-> course.drugs[ks[j]].name,
          dose |-> ExpectedDose(course.drugs[ks[j]], d),
          route |-> course.drugs[ks[j]].route]]

\* C3: the entry of day d lists, in declared order, exactly the drugs scheduled
\* on d: a single-day drug iff day = d with its dose, a multi-day drug iff d is
\* in days with the loading dose on day 1 and the maintenance dose otherwise.
\* Days {1,3} get loading then maintenance, days {3,5} maintenance twice.
C3_DayEntries ==
  (calendar.status = "Returned" /\ WellShaped(SelectedCourse)) =>
    /\ \A d \in 1..SelectedCourse.cycle_length :
         /\ d \in DOMAIN calendar.data
         /\ calendar.data[d].drugs = ExpectedEntries(SelectedCourse, d)
    /\ courses = ExampleLoading =>
         /\ calendar.data[1].drugs =
              <<[name |-> DrugNames[1], dose |-> <<"loading", DrugNames[1]>>, route |-> "IV"]>>
         /\ calendar.data[3].drugs =
              <<[name |-> DrugNames[1], dose |-> <<"maintenance", DrugNames[1]>>, route |-> "IV"],
                [name |-> DrugNames[2], dose |-> <<"maintenance", DrugNames[2]>>, route |-> "IV"]>>
         /\ calendar.data[5].drugs =
              <<[name |-> DrugNames[2], dose |-> <<"maintenance", DrugNames[2]>>, route |-> "IV"]>>
         /\ \A d \in {2, 4} : calendar.data[d].drugs = <<>>

C3_Witness ==
  /\ calendar.status = "Returned" /\ courses = ExampleLoading
  /\ Len(calendar.data[3].drugs) = 2

\* C4: for cycle_length >= 1 the calendar of a course whose records are complete
\* is returned, and a returned calendar has exactly cycle_length entries, for the
\* days 1, 2, ..., cycle_length in order, each with has_treatment true iff some
\* drug is included on that day.
C4_OneEntryPerDay ==
  (CalendarDone /\ SelectedCourse.cycle_length >= 1) =>
    /\ (\A k \in DOMAIN SelectedCourse.drugs : Complete(SelectedCourse.drugs[k]))
         => calendar.status = "Returned"
    /\ calendar.status = "Returned" =>
         /\ Len(calendar.data) = SelectedCourse.cycle_length
         /\ \A d \in 1..SelectedCourse.cycle_length :
              /\ calendar.data[d].day = d
              /\ calendar.data[d].has_treatment
                   <=> (\E k \in DOMAIN SelectedCourse.drugs :
                          IncludedOn(SelectedCourse.drugs[k], d))

\* a returned calendar with a day of treatment and a day without
C4_Witness ==
  /\ calendar.status = "Returned" /\ Len(calendar.data) >= 2
  /\ \E d \in DOMAIN calendar.data : calendar.data[d].has_treatment
  /\ \E d \in DOMAIN calendar.data : ~calendar.data[d].has_treatment

\* C7 as stated: a course holding a drug record that lacks a field its shape
\* requires never gets a calendar: the call fails.
C7_MissingFieldFails ==
  (CalendarDone /\ \E k \in DOMAIN SelectedCourse.drugs : ~Complete(SelectedCourse.drugs[k]))
    => calendar.status = "KeyError"

\* C8: the calendar shown for the selected cycle is the calendar of every cycle
\* number of that course.
C8_CycleNumberInvariant ==
  CalendarDone =>
    \A c \in 1..SelectedCourse.cycles :
      create_cycle_calendar(SelectedCourse, c) = calendar

\* the second cycle of a course that gives a loading dose on day 1
C8_Witness ==
  /\ calendar.status = "Returned" /\ selected.cycle_num = 2
  /\ Len(calendar.data) >= 1
  /\ \E k \in DOMAIN calendar.data[1].drugs :
       calendar.data[1].drugs[k].dose[1] = "loading"

----------------------------------------------------------------------------
(* Properties of both.                                                     *)

RangeDefect(course) ==
  course.cycle_length <= 0 \/ course.cycles <= 0 \/ ~InRange(course)

\* C6 as stated: a day value outside [1, cycle_length], or a non-positive
\* cycle_length or cycles, makes both resolutions end in an error.
C6_InvalidRangeAborts ==
  /\ (CalendarDone /\ RangeDefect(SelectedCourse)) => calendar.status # "Returned"
  /\ (TimelineDone /\ \E i \in DOMAIN courses : RangeDefect(courses[i]))
       => timeline_fig \notin {"None", "Figure"}

\* C10 as stated: for every record with a day field, a days field or both, every
\* cycle c and day d of the cycle, the timeline holds one event of that drug at
\* offset d-1 of cycle c if the calendar lists the drug on day d, and none if not.
C10_CalendarMatchesTimeline ==
  (calendar.status = "Returned" /\ TimelineDone) =>
    LET i == selected.course_idx
    IN  \A k \in DOMAIN courses[i].drugs :
          (HasDay(courses[i].drugs[k]) \/ HasDays(courses[i].drugs[k])) =>
            \A c \in 1..courses[i].cycles : \A d \in 1..courses[i].cycle_length :
              Cardinality({n \in DOMAIN timeline_data :
                             timeline_data[n] = ExpectedEvent(i, c, k, d)})
                = IF \E e \in DOMAIN calendar.data[d].drugs :
                        calendar.data[d].drugs[e].name = courses[i].drugs[k].name
                  THEN 1 ELSE 0

====
